---- MODULE Spec2Model ----
(***************************************************************************)
(* Model of src/streamlit_app.py: the file consolidator.                   *)
(*                                                                         *)
(* Text is a sequence of Unicode code points (integers).  A cell is a      *)
(* record [tipo, txt, num]: tipo "nan" (missing), "str" (text in txt),     *)
(* "int" or "float" (num holds the value in tenths, so 1.5 is 15), or      *)
(* "na" (the missing value of the nullable Int64 dtype).  A DataFrame is   *)
(* a record [columns, dtypes, rows]; each row is a sequence of cells       *)
(* aligned with columns.  Optional values are sequences of length 0 or 1.  *)
(***************************************************************************)
EXTENDS Integers, Sequences, FiniteSets, TLC

VARIABLES files, idx, pc, dataframes, mensajes_log, columnas_base,
          orden_columnas_base, df_consolidado,
          col_name, una_vez, dos_veces, sample, delimitador

vars == <<files, idx, pc, dataframes, mensajes_log, columnas_base,
          orden_columnas_base, df_consolidado,
          col_name, una_vez, dos_veces, sample, delimitador>>

(***************************************************************************)
(* Bounds of the model.                                                    *)
(***************************************************************************)
MaxFiles == 3
MaxHeader == 3
MaxSample == 4

(***************************************************************************)
(* Generic helpers on sequences.                                           *)
(***************************************************************************)
Range(q) == {q[k] : k \in 1..Len(q)}

SeqsUpTo(S, n) == UNION {[1..k -> S] : k \in 0..n}

RECURSIVE Concat(_)
Concat(qq) == IF qq = <<>> THEN <<>> ELSE Head(qq) \o Concat(Tail(qq))

\* str.count for a one-character needle
Count(q, c) == Cardinality({k \in 1..Len(q) : q[k] = c})

\* comparison of two texts as Python compares str: by code point, then length
RECURSIVE LexLess(_, _)
LexLess(a, b) ==
  IF b = <<>> THEN FALSE
  ELSE IF a = <<>> THEN TRUE
  ELSE IF Head(a) # Head(b) THEN Head(a) < Head(b)
  ELSE LexLess(Tail(a), Tail(b))

RECURSIVE Insert(_, _)
Insert(x, q) ==
  IF q = <<>> THEN <<x>>
  ELSE IF LexLess(x, Head(q)) THEN <<x>> \o q
  ELSE <<Head(q)>> \o Insert(x, Tail(q))

\* sorted(list) on a list of texts
RECURSIVE Sorted(_)
Sorted(q) == IF q = <<>> THEN <<>> ELSE Insert(Head(q), Sorted(Tail(q)))

\* sorted(list(set)) on a set of texts
RECURSIVE SortedSet(_)
SortedSet(S) ==
  IF S = {} THEN <<>>
  ELSE LET m == CHOOSE x \in S : \A y \in S \ {x} : LexLess(x, y)
       IN <<m>> \o SortedSet(S \ {m})

(***************************************************************************)
(* Code points used by the program.                                        *)
(***************************************************************************)
ChSemicolon == 59
ChComma == 44
ChTab == 9
ChPipe == 124
ChSpace == 32
ChHyphen == 45
ChUnderscore == 95
ChReplacement == 65533
ChDegree == 176
ChOrdinal == 186
ChBEL == 7

TxtNro == <<110, 114, 111>>
TxtUnnamed == <<117, 110, 110, 97, 109, 101, 100>>
TxtArchivoOrigen == <<97, 114, 99, 104, 105, 118, 111, 95, 111, 114, 105, 103, 101, 110>>
TxtNan == <<110, 97, 110>>

(***************************************************************************)
(* limpiar_caracteres_ilegales                                             *)
(***************************************************************************)
ILLEGAL_CHARACTERS_RE(c) ==
  \/ c \in 0..8
  \/ c \in {11, 12}
  \/ c \in 14..31
  \/ c \in 127..159

NaN == [tipo |-> "nan", txt |-> <<>>, num |-> 0]
NA == [tipo |-> "na", txt |-> <<>>, num |-> 0]
Str(t) == [tipo |-> "str", txt |-> t, num |-> 0]
FloatCell(n) == [tipo |-> "float", txt |-> <<>>, num |-> n]
IntCell(n) == [tipo |-> "int", txt |-> <<>>, num |-> n]

limpiar_caracteres_ilegales(valor) ==
  IF valor.tipo = "str"
  THEN Str(SelectSeq(valor.txt, LAMBDA c : ~ILLEGAL_CHARACTERS_RE(c)))
  ELSE valor

(***************************************************************************)
(* detectar_delimitador                                                    *)
(***************************************************************************)
\* the candidates with comma first
delimitadores_coma_primero == <<ChComma, ChSemicolon, ChTab, ChPipe>>

delimitadores == <<ChSemicolon, ChComma, ChTab, ChPipe>>

\* max(conteo, key=conteo.get): the first key, in insertion order, whose
\* count is not exceeded by any other
RECURSIVE MaxKey(_, _, _)
MaxKey(keys, q, best) ==
  IF keys = <<>> THEN best
  ELSE IF Count(q, Head(keys)) > Count(q, best)
       THEN MaxKey(Tail(keys), q, Head(keys))
       ELSE MaxKey(Tail(keys), q, best)

detectar_delimitador(q) ==
  IF \E k \in 1..Len(delimitadores) : Count(q, delimitadores[k]) > 0
  THEN MaxKey(Tail(delimitadores), q, Head(delimitadores))
  ELSE ChComma

(***************************************************************************)
(* normalizar_nombre_columna                                               *)
(***************************************************************************)
\* str.lower on the letters of Basic Latin and Latin-1
Lower(c) ==
  IF c \in 65..90 THEN c + 32
  ELSE IF c \in 192..222 /\ c # 215 THEN c + 32
  ELSE c

\* the characters str.strip removes
IsSpace(c) == c \in 9..13 \/ c \in 28..32 \/ c \in {133, 160}

RECURSIVE LStrip(_)
LStrip(q) == IF q # <<>> /\ IsSpace(Head(q)) THEN LStrip(Tail(q)) ELSE q

RECURSIVE RStrip(_)
RStrip(q) ==
  IF q # <<>> /\ IsSpace(q[Len(q)]) THEN RStrip(SubSeq(q, 1, Len(q) - 1)) ELSE q

Strip(q) == RStrip(LStrip(q))

\* unicodedata.category(c) == 'Mn' for the combining diacritical marks
IsMn(c) == c \in 768..879

\* the combining marks of the Latin-1 letters: grave, acute, circumflex,
\* tilde, diaeresis, ring
MarksA == <<768, 769, 770, 771, 776, 778>>
MarksE == <<768, 769, 770, 776>>
MarksO == <<768, 769, 770, 771, 776>>

\* unicodedata.normalize('NFD', c) for one lowercase Latin-1 character
NFD(c) ==
  IF c \in 224..229 THEN <<97, MarksA[c - 223]>>
  ELSE IF c = 231 THEN <<99, 807>>
  ELSE IF c \in 232..235 THEN <<101, MarksE[c - 231]>>
  ELSE IF c \in 236..239 THEN <<105, MarksE[c - 235]>>
  ELSE IF c = 241 THEN <<110, 771>>
  ELSE IF c \in 242..246 THEN <<111, MarksO[c - 241]>>
  ELSE IF c \in 249..252 THEN <<117, MarksE[c - 248]>>
  ELSE IF c = 253 THEN <<121, 769>>
  ELSE IF c = 255 THEN <<121, 776>>
  ELSE <<c>>

\* str.replace(old, new) for a one-character old
Replace(q, old, new) ==
  Concat([k \in 1..Len(q) |-> IF q[k] = old THEN new ELSE <<q[k]>>])

\* re.sub(r'__+', '_', s)
RECURSIVE Collapse(_)
Collapse(q) ==
  IF Len(q) < 2 THEN q
  ELSE IF q[1] = ChUnderscore /\ q[2] = ChUnderscore THEN Collapse(Tail(q))
  ELSE <<Head(q)>> \o Collapse(Tail(q))

\* the runs of underscores collapsed before spaces and hyphens become underscores
normalizar_colapsa_antes(name) ==
  LET s1 == Strip([k \in 1..Len(name) |-> Lower(name[k])])
      s2 == Replace(s1, ChReplacement, <<>>)
      s3 == Replace(Replace(s2, ChDegree, TxtNro), ChOrdinal, TxtNro)
      s4 == SelectSeq(Concat([k \in 1..Len(s3) |-> NFD(s3[k])]), LAMBDA c : ~IsMn(c))
      s5 == Collapse(s4)
  IN Replace(Replace(s5, ChSpace, <<ChUnderscore>>), ChHyphen, <<ChUnderscore>>)

normalizar_nombre_columna(name) ==
  LET s1 == Strip([k \in 1..Len(name) |-> Lower(name[k])])
      s2 == Replace(s1, ChReplacement, <<>>)
      s3 == Replace(Replace(s2, ChDegree, TxtNro), ChOrdinal, TxtNro)
      s4 == SelectSeq(Concat([k \in 1..Len(s3) |-> NFD(s3[k])]), LAMBDA c : ~IsMn(c))
      s5 == Replace(Replace(s4, ChSpace, <<ChUnderscore>>), ChHyphen, <<ChUnderscore>>)
  IN Collapse(s5)

(***************************************************************************)
(* DataFrames (the pandas operations the program uses).                    *)
(***************************************************************************)
Columna(df, j) == [r \in 1..Len(df.rows) |-> df.rows[r][j]]

\* the dtype a reader gives a column holding these cells
InferDtype(celdas) ==
  IF celdas = <<>> THEN "object"
  ELSE IF \A k \in 1..Len(celdas) : celdas[k].tipo = "int" THEN "int64"
  ELSE IF \A k \in 1..Len(celdas) : celdas[k].tipo \in {"float", "nan"} THEN "float64"
  ELSE "object"

\* a DataFrame as a reader returns it
DataFrame(columns, rows) ==
  [columns |-> columns,
   dtypes |-> [j \in 1..Len(columns) |-> InferDtype([r \in 1..Len(rows) |-> rows[r][j]])],
   rows |-> rows]

\* df.iloc[:, pos] for a list of column positions
TomarColumnas(df, pos) ==
  [columns |-> [k \in 1..Len(pos) |-> df.columns[pos[k]]],
   dtypes |-> [k \in 1..Len(pos) |-> df.dtypes[pos[k]]],
   rows |-> [r \in 1..Len(df.rows) |-> [k \in 1..Len(pos) |-> df.rows[r][pos[k]]]]]

\* the positions j, in order, with mask[j] true (a boolean mask as an indexer)
Posiciones(mask) == SelectSeq([j \in 1..Len(mask) |-> j], LAMBDA j : mask[j])

\* str.match(pat): the text starts with pat
Match(q, pat) == Len(q) >= Len(pat) /\ SubSeq(q, 1, Len(pat)) = pat

\* df.empty
Empty(df) == Len(df.columns) = 0 \/ Len(df.rows) = 0

\* df[orden]: for every label of orden, the columns of df with that label
Reordenar(df, orden) ==
  TomarColumnas(df,
    Concat([k \in 1..Len(orden) |->
              Posiciones([j \in 1..Len(df.columns) |-> df.columns[j] = orden[k]])]))

\* df[col] = valor for a scalar text valor: replaces the column when it exists,
\* appends it as the last column otherwise
AsignarColumna(df, col, valor) ==
  IF col \in Range(df.columns)
  THEN [df EXCEPT
          !.dtypes = [j \in 1..Len(df.columns) |->
                        IF df.columns[j] = col THEN "object" ELSE df.dtypes[j]],
          !.rows = [r \in 1..Len(df.rows) |->
                      [j \in 1..Len(df.columns) |->
                         IF df.columns[j] = col THEN valor ELSE df.rows[r][j]]]]
  ELSE [columns |-> Append(df.columns, col),
        dtypes |-> Append(df.dtypes, "object"),
        rows |-> [r \in 1..Len(df.rows) |-> Append(df.rows[r], valor)]]

(***************************************************************************)
(* leer_archivo.  A file is [name, contenido]; name is [stem, ext], two     *)
(* texts, the file being called stem.ext, and                              *)
(* contenido is [clase, tabla, error]: "tabla" parses to the DataFrame     *)
(* tabla, "html" is an HTML table saved as a workbook, "html_roto" is one  *)
(* that read_html cannot read, "corrupto" makes the Excel reader raise     *)
(* error, "ilegible" is text no encoding decodes.  The result is           *)
(* [tipo, df, error] with tipo "df", "none" or "raise".                    *)
(***************************************************************************)
SinTabla == [columns |-> <<>>, dtypes |-> <<>>, rows |-> <<>>]

Devuelve(df) == [tipo |-> "df", df |-> df, error |-> ""]
DevuelveNone == [tipo |-> "none", df |-> SinTabla, error |-> ""]
Lanza(e) == [tipo |-> "raise", df |-> SinTabla, error |-> e]

ExtCsv == <<99, 115, 118>>
ExtTxt == <<116, 120, 116>>
ExtXlsx == <<120, 108, 115, 120>>
ExtXls == <<120, 108, 115>>
ExtPdf == <<112, 100, 102>>

\* file.name as a text
NombreDe(name) == name.stem \o <<46>> \o name.ext

\* file.name.lower().endswith(('.' + e1, '.' + e2, ...))
TerminaEn(name, exts) == [k \in 1..Len(name.ext) |-> Lower(name.ext[k])] \in exts

leer_archivo(file) ==
  IF TerminaEn(file.name, {ExtCsv, ExtTxt})
  THEN IF file.contenido.clase = "tabla" THEN Devuelve(file.contenido.tabla)
       ELSE DevuelveNone
  ELSE IF TerminaEn(file.name, {ExtXlsx, ExtXls})
  THEN IF file.contenido.clase = "tabla" THEN Devuelve(file.contenido.tabla)
       ELSE IF file.contenido.clase = "html" THEN Devuelve(file.contenido.tabla)
       ELSE IF file.contenido.clase = "html_roto" THEN DevuelveNone
       ELSE Lanza(file.contenido.error)
  ELSE DevuelveNone

(***************************************************************************)
(* procesar_archivos_cargados: the body of the loop.                       *)
(***************************************************************************)
\* a log message: what the f-string is built from
Mensaje(tipo, file, faltan, sobran, detalle) ==
  [tipo |-> tipo, archivo |-> file.name, faltan |-> faltan, sobran |-> sobran,
   detalle |-> detalle]

\* the file is skipped without a log entry
RegistrarIgnoradoOlvidado(log, file) == log
RegistrarVacioOlvidado(log, file) == log

RegistrarIgnorado(log, file) == Append(log, Mensaje("ignorado", file, <<>>, <<>>, ""))
RegistrarVacio(log, file) == Append(log, Mensaje("vacio", file, <<>>, <<>>, ""))
RegistrarRechazado(log, file, faltantes, adicionales) ==
  Append(log, Mensaje("rechazado", file, faltantes, adicionales, ""))
RegistrarProcesado(log, file) == Append(log, Mensaje("ok", file, <<>>, <<>>, ""))
RegistrarError(log, file, e) == Append(log, Mensaje("error", file, <<>>, <<>>, e))

\* lines 128-129
Normalizar(df) ==
  LET df1 == [df EXCEPT !.columns = [j \in 1..Len(df.columns) |->
                                     normalizar_nombre_columna(df.columns[j])]]
  IN TomarColumnas(df1, Posiciones([j \in 1..Len(df1.columns) |->
                                      ~Match(df1.columns[j], TxtUnnamed)]))

\* the order of the file, unsorted
OrdenBaseDelArchivo(columns) == columns

\* line 136
OrdenBase(columns) == Sorted(columns)

\* line 138
Difieren(columns, base) == Range(columns) # base

\* the difference taken the wrong way round
FaltantesAlReves(columns, base) == SortedSet(Range(columns) \ base)

\* lines 139-140
Faltantes(columns, base) == SortedSet(base \ Range(columns))
Adicionales(columns, base) == SortedSet(Range(columns) \ base)

\* lines 146-147
Aceptar(df, orden, file) == AsignarColumna(Reordenar(df, orden), TxtArchivoOrigen, Str(NombreDe(file.name)))

\* the outcome of one iteration for the state e = [dataframes, mensajes_log,
\* columnas_base, orden_columnas_base]
Clase(e, file) ==
  LET lectura == leer_archivo(file) IN
  IF lectura.tipo = "raise" THEN "error"
  ELSE IF lectura.tipo = "none" THEN "ignorado"
  ELSE LET df == Normalizar(lectura.df) IN
       IF Empty(df) THEN "vacio"
       ELSE LET base == IF e.columnas_base = <<>> THEN Range(df.columns)
                        ELSE e.columnas_base[1]
            IN IF Difieren(df.columns, base) THEN "rechazado" ELSE "aceptado"

Iteracion(e, file) ==
  LET lectura == leer_archivo(file) IN
  IF lectura.tipo = "raise"
  THEN [e EXCEPT !.mensajes_log = RegistrarError(@, file, lectura.error)]
  ELSE IF lectura.tipo = "none"
  THEN [e EXCEPT !.mensajes_log = RegistrarIgnorado(@, file)]
  ELSE LET df == Normalizar(lectura.df) IN
       IF Empty(df)
       THEN [e EXCEPT !.mensajes_log = RegistrarVacio(@, file)]
       ELSE LET base == IF e.columnas_base = <<>> THEN Range(df.columns)
                        ELSE e.columnas_base[1]
                orden == IF e.columnas_base = <<>> THEN OrdenBase(df.columns)
                         ELSE e.orden_columnas_base
            IN IF Difieren(df.columns, base)
               THEN [e EXCEPT !.columnas_base = <<base>>,
                              !.orden_columnas_base = orden,
                              !.mensajes_log =
                                 RegistrarRechazado(@, file, Faltantes(df.columns, base),
                                                    Adicionales(df.columns, base))]
               ELSE [e EXCEPT !.columnas_base = <<base>>,
                              !.orden_columnas_base = orden,
                              !.dataframes = Append(@, Aceptar(df, orden, file)),
                              !.mensajes_log = RegistrarProcesado(@, file)]

(***************************************************************************)
(* procesar_archivos_cargados: consolidation, cleaning and optimization.   *)
(***************************************************************************)
\* the dtype pd.concat gives a column whose pieces have these dtypes
DtypeComun(ds) ==
  IF ds = {"int64"} THEN "int64"
  ELSE IF ds \subseteq {"int64", "float64"} THEN "float64"
  ELSE "object"

\* a cell stored in a column of the given dtype
Convertir(celda, dtype) ==
  IF dtype = "float64" /\ celda.tipo = "int" THEN FloatCell(celda.num) ELSE celda

\* pd.concat(dataframes, ignore_index=True) of tables with the same columns
Concatenar(dfs) ==
  LET cols == dfs[1].columns
      dts == [j \in 1..Len(cols) |-> DtypeComun({dfs[k].dtypes[j] : k \in 1..Len(dfs)})]
      filas == Concat([k \in 1..Len(dfs) |-> dfs[k].rows])
  IN [columns |-> cols,
      dtypes |-> dts,
      rows |-> [r \in 1..Len(filas) |->
                  [j \in 1..Len(cols) |-> Convertir(filas[r][j], dts[j])]]]

\* str(n) for a natural number
RECURSIVE Decimal(_)
Decimal(n) == IF n < 10 THEN <<48 + n>> ELSE Decimal(n \div 10) \o <<48 + (n % 10)>>

\* Series.astype(str) on one cell
AsTypeStr(celda) ==
  IF celda.tipo = "str" THEN celda
  ELSE IF celda.tipo \in {"nan", "na"} THEN Str(TxtNan)
  ELSE IF celda.tipo = "int" THEN Str(Decimal(celda.num \div 10))
  ELSE Str(Decimal(celda.num \div 10) \o <<46>> \o Decimal(celda.num % 10))

\* lines 161-162
LimpiarTexto(df) ==
  [df EXCEPT
     !.dtypes = [j \in 1..Len(df.columns) |->
                   IF df.dtypes[j] \in {"object", "category"} THEN "object"
                   ELSE df.dtypes[j]],
     !.rows = [r \in 1..Len(df.rows) |->
                 [j \in 1..Len(df.columns) |->
                    IF df.dtypes[j] \in {"object", "category"}
                    THEN limpiar_caracteres_ilegales(AsTypeStr(df.rows[r][j]))
                    ELSE df.rows[r][j]]]]

\* Series.nunique(): the distinct values that are not missing
NUnique(celdas) ==
  Cardinality({celdas[k] : k \in {r \in 1..Len(celdas) : celdas[r].tipo \notin {"nan", "na"}}})

\* lines 165-168: nunique / len < 0.5
OptimizarCategorias(df) ==
  [df EXCEPT
     !.dtypes = [j \in 1..Len(df.columns) |->
                   IF df.dtypes[j] = "object" /\ 2 * NUnique(Columna(df, j)) < Len(df.rows)
                   THEN "category" ELSE df.dtypes[j]]]

\* line 172: (col.dropna() % 1 == 0).all()
SinDecimales(celdas) ==
  \A k \in 1..Len(celdas) : celdas[k].tipo = "float" => celdas[k].num % 10 = 0

\* lines 170-173
OptimizarEnteros(df) ==
  LET aInt == [j \in 1..Len(df.columns) |->
                 df.dtypes[j] = "float64" /\ SinDecimales(Columna(df, j))]
  IN [df EXCEPT
        !.dtypes = [j \in 1..Len(df.columns) |-> IF aInt[j] THEN "Int64" ELSE df.dtypes[j]],
        !.rows = [r \in 1..Len(df.rows) |->
                    [j \in 1..Len(df.columns) |->
                       IF ~aInt[j] THEN df.rows[r][j]
                       ELSE IF df.rows[r][j].tipo = "float" THEN IntCell(df.rows[r][j].num)
                       ELSE NA]]]

\* lines 158-175
Consolidado(dfs) == OptimizarEnteros(OptimizarCategorias(LimpiarTexto(Concatenar(dfs))))

(***************************************************************************)
(* The inputs of the model.                                                *)
(***************************************************************************)
TxtA == <<97>>
ColX == <<120>>
ColYMayus == <<89>>
ColZ == <<122>>
ColSinNombre == <<85, 110, 110, 97, 109, 101, 100, 58, 32, 48>>

Llena(k) == [j \in 1..k |-> Str(TxtA)]
Vacia(k) == [j \in 1..k |-> NaN]
Parcial(k) == [j \in 1..k |-> IF j = 1 THEN NaN ELSE Str(TxtA)]

\* the row lists of the tables with columns x, Y: no row, a full row, an
\* entirely missing row, a partly missing row, a full and an entirely missing row
Filas == {<<>>, <<Llena(2)>>, <<Vacia(2)>>, <<Parcial(2)>>, <<Llena(2), Vacia(2)>>}

\* the other headers, each with one full row
Encabezados == {<<ColYMayus, ColX>>, <<ColX, ColZ>>, <<ColSinNombre, ColX>>}

Tablas ==
  {DataFrame(<<ColX, ColYMayus>>, f) : f \in Filas}
  \cup {DataFrame(h, <<Llena(2)>>) : h \in Encabezados}

\* tables of one column x with cells of every kind
Celdas == {NaN, Str(TxtA), Str(<<97, ChBEL>>), FloatCell(10), FloatCell(15), IntCell(10)}

TablasCeldas ==
  {DataFrame(<<ColX>>, f) : f \in {<<>>} \cup {<<<<c>>>> : c \in Celdas}}
  \cup {DataFrame(<<ColX, ColYMayus>>, <<<<c, d>>, <<Str(TxtA), FloatCell(10)>>>>) :
          c \in {NaN, IntCell(10)}, d \in {NaN, FloatCell(15)}}

Contenido(clase, tabla, error) == [clase |-> clase, tabla |-> tabla, error |-> error]

Variantes(tablas) ==
  {[ext |-> ExtPdf, contenido |-> Contenido("ilegible", SinTabla, "")],
   [ext |-> ExtXls, contenido |-> Contenido("html_roto", SinTabla, "")],
   [ext |-> ExtXlsx, contenido |-> Contenido("corrupto", SinTabla, "BadZipFile")]}
  \cup {[ext |-> ExtCsv, contenido |-> Contenido("tabla", t, "")] : t \in tablas}

VariantesTablas == Variantes(Tablas)

VariantesCeldas == Variantes(TablasCeldas)

\* the k-th uploaded file: f<k>.<ext>
Archivo(k, v) == [name |-> [stem |-> <<102, 48 + k>>, ext |-> v.ext], contenido |-> v.contenido]

(***************************************************************************)
(* The state machine of procesar_archivos_cargados.                        *)
(***************************************************************************)
puras == <<col_name, una_vez, dos_veces, sample, delimitador>>

PurasEnReposo ==
  /\ col_name = <<>>
  /\ una_vez = <<>>
  /\ dos_veces = <<>>
  /\ sample = <<>>
  /\ delimitador = 0

\* line 120
InitCon(variantes) ==
  /\ \E n \in 0..MaxFiles : \E vs \in [1..n -> variantes] :
        files = [k \in 1..n |-> Archivo(k, vs[k])]
  /\ idx = 0
  /\ pc = "loop"
  /\ dataframes = <<>>
  /\ mensajes_log = <<>>
  /\ columnas_base = <<>>
  /\ orden_columnas_base = <<>>
  /\ df_consolidado = <<>>
  /\ PurasEnReposo

Init == InitCon(VariantesTablas)

InitCeldas == InitCon(VariantesCeldas)

estado ==
  [dataframes |-> dataframes, mensajes_log |-> mensajes_log,
   columnas_base |-> columnas_base, orden_columnas_base |-> orden_columnas_base]

\* the exception ends the loop
TrasExcepcionAborta(i, n) == n

\* lines 151-152: the handler ends and the loop goes on with the next file
TrasExcepcion(i, n) == i + 1

\* one iteration of the loop of lines 122-152 whose outcome is clase
Paso(clase) ==
  /\ pc = "loop"
  /\ idx < Len(files)
  /\ Clase(estado, files[idx + 1]) = clase
  /\ LET e == Iteracion(estado, files[idx + 1])
     IN /\ dataframes' = e.dataframes
        /\ mensajes_log' = e.mensajes_log
        /\ columnas_base' = e.columnas_base
        /\ orden_columnas_base' = e.orden_columnas_base
  /\ idx' = IF clase = "error" THEN TrasExcepcion(idx, Len(files)) ELSE idx + 1
  /\ UNCHANGED <<files, pc, df_consolidado, puras>>

ArchivoIgnorado ==
  /\ pc = "loop"
  /\ Paso("ignorado")

ArchivoVacio ==
  /\ pc = "loop"
  /\ Paso("vacio")

ArchivoRechazado ==
  /\ pc = "loop"
  /\ Paso("rechazado")

ArchivoAceptado ==
  /\ pc = "loop"
  /\ Paso("aceptado")

ErrorCritico ==
  /\ pc = "loop"
  /\ Paso("error")

\* lines 154-155
RetornarNone ==
  /\ pc = "loop"
  /\ idx >= Len(files)
  /\ dataframes = <<>>
  /\ df_consolidado' = <<>>
  /\ pc' = "done"
  /\ UNCHANGED <<files, idx, dataframes, mensajes_log, columnas_base,
                 orden_columnas_base, puras>>

\* lines 158-175
Consolidar ==
  /\ pc = "loop"
  /\ idx >= Len(files)
  /\ dataframes # <<>>
  /\ df_consolidado' = <<Consolidado(dataframes)>>
  /\ pc' = "done"
  /\ UNCHANGED <<files, idx, dataframes, mensajes_log, columnas_base,
                 orden_columnas_base, puras>>

Next ==
  \/ ArchivoIgnorado
  \/ ArchivoVacio
  \/ ArchivoRechazado
  \/ ArchivoAceptado
  \/ ErrorCritico
  \/ RetornarNone
  \/ Consolidar

Spec == Init /\ [][Next]_vars

SpecCeldas == InitCeldas /\ [][Next]_vars

(***************************************************************************)
(* normalizar_nombre_columna and detectar_delimitador on their own.        *)
(***************************************************************************)
ProcesoEnReposo ==
  /\ files = <<>>
  /\ idx = 0
  /\ dataframes = <<>>
  /\ mensajes_log = <<>>
  /\ columnas_base = <<>>
  /\ orden_columnas_base = <<>>
  /\ df_consolidado = <<>>

proceso == <<files, idx, dataframes, mensajes_log, columnas_base,
             orden_columnas_base, df_consolidado>>

\* A a A-acute a-acute space hyphen underscore degree ordinal replacement
AlfabetoEncabezado ==
  {65, 97, 193, 225, ChSpace, ChHyphen, ChUnderscore, ChDegree, ChOrdinal, ChReplacement}

InitNorm ==
  /\ ProcesoEnReposo
  /\ pc = "norm"
  /\ col_name \in SeqsUpTo(AlfabetoEncabezado, MaxHeader)
  /\ una_vez = <<>>
  /\ dos_veces = <<>>
  /\ sample = <<>>
  /\ delimitador = 0

NormalizarUnaVez ==
  /\ pc = "norm"
  /\ una_vez' = normalizar_nombre_columna(col_name)
  /\ pc' = "norm1"
  /\ UNCHANGED <<proceso, col_name, dos_veces, sample, delimitador>>

NormalizarOtraVez ==
  /\ pc = "norm1"
  /\ dos_veces' = normalizar_nombre_columna(una_vez)
  /\ pc' = "norm2"
  /\ UNCHANGED <<proceso, col_name, una_vez, sample, delimitador>>

NextNorm == NormalizarUnaVez \/ NormalizarOtraVez

SpecNorm == InitNorm /\ [][NextNorm]_vars

AlfabetoMuestra == {ChSemicolon, ChComma, ChTab, ChPipe, 97}

InitDelim ==
  /\ ProcesoEnReposo
  /\ pc = "detectar"
  /\ sample \in SeqsUpTo(AlfabetoMuestra, MaxSample)
  /\ delimitador = 0
  /\ col_name = <<>>
  /\ una_vez = <<>>
  /\ dos_veces = <<>>

DetectarDelimitador ==
  /\ pc = "detectar"
  /\ delimitador' = detectar_delimitador(sample)
  /\ pc' = "detectado"
  /\ UNCHANGED <<proceso, col_name, una_vez, dos_veces, sample>>

NextDelim == DetectarDelimitador

SpecDelim == InitDelim /\ [][NextDelim]_vars

(***************************************************************************)
(* Vocabulary of the properties.                                           *)
(***************************************************************************)
\* the file is read as a table that is not empty once normalized
EsTabla(file) ==
  leer_archivo(file).tipo = "df" /\ ~Empty(Normalizar(leer_archivo(file).df))

ColumnasDe(file) == Normalizar(leer_archivo(file).df).columns

Falla(file) == leer_archivo(file).tipo = "raise"

\* the position of the first file that is a non-empty table, 0 when none is
Semilla ==
  IF \E k \in 1..Len(files) : EsTabla(files[k])
  THEN CHOOSE k \in 1..Len(files) :
         EsTabla(files[k]) /\ \A m \in 1..(k - 1) : ~EsTabla(files[m])
  ELSE 0

\* the columns of a table other than the provenance column
ColumnasDeDatos(df) == SelectSeq(df.columns, LAMBDA c : c # TxtArchivoOrigen)

\* the values of the provenance column of a table
Origenes(df) ==
  {df.rows[r][j] : r \in 1..Len(df.rows),
                   j \in {m \in 1..Len(df.columns) : df.columns[m] = TxtArchivoOrigen}}

NombreCelda(file) == Str(NombreDe(file.name))

\* the file contributes a row to the accepted tables or to the result
Aporta(file) ==
  \/ \E k \in 1..Len(dataframes) : NombreCelda(file) \in Origenes(dataframes[k])
  \/ df_consolidado # <<>> /\ NombreCelda(file) \in Origenes(df_consolidado[1])

Tipos == {mensajes_log[k].tipo : k \in 1..Len(mensajes_log)}

Faltante(celda) == celda.tipo \in {"nan", "na"}

FilaEnBlanco(fila) == \A j \in 1..Len(fila) : Faltante(fila[j])

\* no table of the list has a row whose cells are all missing
SinFilasEnBlanco ==
  \A k \in 1..Len(files) :
    \A r \in 1..Len(leer_archivo(files[k]).df.rows) :
      ~FilaEnBlanco(leer_archivo(files[k]).df.rows[r])

(***************************************************************************)
(* C1: the log has one entry per processed file, the i-th entry is about   *)
(* the i-th file, the returned log has as many entries as the input list,  *)
(* and a step never removes or rewrites an entry.                          *)
(***************************************************************************)
C1_UnaEntradaPorArchivo ==
  /\ [](/\ Len(mensajes_log) = idx
        /\ \A k \in 1..Len(mensajes_log) : mensajes_log[k].archivo = files[k].name
        /\ pc = "done" => Len(mensajes_log) = Len(files))
  /\ [][/\ Len(mensajes_log') >= Len(mensajes_log)
        /\ SubSeq(mensajes_log', 1, Len(mensajes_log)) = mensajes_log]_vars

C1_Witness ==
  /\ pc = "done"
  /\ Len(files) = 3
  /\ Len(mensajes_log) = 3
  /\ mensajes_log[1].tipo = "ok"
  /\ mensajes_log[2].tipo = "error"
  /\ mensajes_log[3].tipo = "rechazado"

(***************************************************************************)
(* C2: a non-empty table that comes after the seeding table and whose      *)
(* column set differs from the seed's is rejected: it contributes no row,  *)
(* the canonical set stays the seed's, and its log entry lists exactly the *)
(* canonical columns it lacks and exactly its columns that are not         *)
(* canonical.                                                              *)
(***************************************************************************)
C2_Rechazo ==
  LET s == Semilla
      canonicas == Range(ColumnasDe(files[s]))
  IN \A k \in 1..idx :
       LET propias == Range(ColumnasDe(files[k]))
       IN (s # 0 /\ k > s /\ EsTabla(files[k]) /\ propias # canonicas)
          => /\ mensajes_log[k].tipo = "rechazado"
             /\ Range(mensajes_log[k].faltan) = canonicas \ propias
             /\ Len(mensajes_log[k].faltan) = Cardinality(Range(mensajes_log[k].faltan))
             /\ Range(mensajes_log[k].sobran) = propias \ canonicas
             /\ Len(mensajes_log[k].sobran) = Cardinality(Range(mensajes_log[k].sobran))
             /\ ~Aporta(files[k])
             /\ columnas_base = <<canonicas>>

C2_Witness ==
  /\ pc = "done"
  /\ Len(files) >= 2
  /\ df_consolidado # <<>>
  /\ mensajes_log[1].tipo = "ok"
  /\ mensajes_log[2].tipo = "rechazado"
  /\ mensajes_log[2].faltan = <<<<121>>>>
  /\ mensajes_log[2].sobran = <<ColZ>>

(***************************************************************************)
(* C3 as stated: a table with the canonical column set is accepted, and    *)
(* the data columns of every accepted table and of the result are in the   *)
(* column order of the first accepted file.  Stated for the lists without  *)
(* entirely missing rows, where C5 plays no part.                          *)
(***************************************************************************)
AceptadosEnOrden(orden) ==
  /\ \A k \in 1..idx :
       (EsTabla(files[k]) /\ Range(ColumnasDe(files[k])) = Range(orden))
       => mensajes_log[k].tipo = "ok" /\ Aporta(files[k])
  /\ \A k \in 1..Len(dataframes) : ColumnasDeDatos(dataframes[k]) = orden
  /\ df_consolidado # <<>> => ColumnasDeDatos(df_consolidado[1]) = orden

EstadoInicial ==
  [dataframes |-> <<>>, mensajes_log |-> <<>>, columnas_base |-> <<>>,
   orden_columnas_base |-> <<>>]

RECURSIVE Plegar(_, _)
Plegar(e, fs) == IF fs = <<>> THEN e ELSE Plegar(Iteracion(e, Head(fs)), Tail(fs))

SinFallidos(fs) == SelectSeq(fs, LAMBDA f : ~Falla(f))

C4_FalloAislado ==
  LET ref == Plegar(EstadoInicial, SinFallidos(SubSeq(files, 1, idx)))
  IN /\ idx <= Len(files)
     /\ pc = "done" => idx = Len(files)
     /\ dataframes = ref.dataframes
     /\ columnas_base = ref.columnas_base
     /\ orden_columnas_base = ref.orden_columnas_base
     /\ SelectSeq(mensajes_log, LAMBDA m : m.tipo # "error") = ref.mensajes_log
     /\ \A k \in 1..idx :
          Falla(files[k])
          => /\ mensajes_log[k].tipo = "error"
             /\ mensajes_log[k].archivo = files[k].name
             /\ mensajes_log[k].detalle = files[k].contenido.error
             /\ ~Aporta(files[k])
     /\ pc = "done"
        => df_consolidado =
             IF ref.dataframes = <<>> THEN <<>> ELSE <<Consolidado(ref.dataframes)>>

C4_Witness ==
  /\ pc = "done"
  /\ Len(files) = 3
  /\ mensajes_log[1].tipo = "error"
  /\ mensajes_log[2].tipo = "ok"
  /\ mensajes_log[3].tipo = "ok"
  /\ Len(df_consolidado[1].rows) >= 2

(***************************************************************************)
(* C5 as stated: a table whose rows are all entirely missing is skipped as *)
(* empty and contributes nothing, and the result has as many rows as the   *)
(* accepted files have rows with at least one cell that is not missing.    *)
(***************************************************************************)
FilasConDatos(file) ==
  LET df == Normalizar(leer_archivo(file).df)
  IN Cardinality({r \in 1..Len(df.rows) : ~FilaEnBlanco(df.rows[r])})

RECURSIVE FilasEsperadas(_)
FilasEsperadas(k) ==
  IF k = 0 THEN 0
  ELSE FilasEsperadas(k - 1)
       + (IF mensajes_log[k].tipo = "ok" THEN FilasConDatos(files[k]) ELSE 0)

C5_FilasEnBlanco ==
  /\ \A k \in 1..idx :
       (leer_archivo(files[k]).tipo = "df" /\ FilasConDatos(files[k]) = 0)
       => mensajes_log[k].tipo = "vacio" /\ ~Aporta(files[k])
  /\ pc = "done"
     => (IF df_consolidado = <<>> THEN 0 ELSE Len(df_consolidado[1].rows))
          = FilasEsperadas(Len(files))

(***************************************************************************)
(* C6 as stated: every accepted table has the provenance column            *)
(* archivo_origen with its file's name on every row, and in the result the *)
(* provenance column is the first column.  Stated for the lists without    *)
(* entirely missing rows, where C5 plays no part.                          *)
(***************************************************************************)
C6_OrigenPrimero ==
  SinFilasEnBlanco =>
  /\ \A k \in 1..Len(dataframes) :
       \E m \in 1..idx :
          /\ mensajes_log[m].tipo = "ok"
          /\ Origenes(dataframes[k]) = {NombreCelda(files[m])}
          /\ Len(dataframes[k].rows) = Len(leer_archivo(files[m]).df.rows)
  /\ (pc = "done" /\ df_consolidado # <<>>)
     => df_consolidado[1].columns[1] = TxtArchivoOrigen

(***************************************************************************)
(* C7: when no file is accepted the function returns no table and the      *)
(* whole log: one entry per file, each saying why the file was left out;   *)
(* for the empty list the log is empty.                                    *)
(***************************************************************************)
C7_SinAceptados ==
  /\ (pc = "loop" /\ idx = Len(files) /\ Semilla = 0) => ENABLED RetornarNone
  /\ (pc = "done" /\ Semilla = 0)
     => /\ df_consolidado = <<>>
        /\ Len(mensajes_log) = Len(files)
        /\ \A k \in 1..Len(files) :
             /\ mensajes_log[k].archivo = files[k].name
             /\ mensajes_log[k].tipo \in {"ignorado", "vacio", "rechazado", "error"}

C7_Witness ==
  /\ pc = "done"
  /\ Len(files) = 3
  /\ df_consolidado = <<>>
  /\ Tipos = {"ignorado", "vacio", "error"}

(***************************************************************************)
(* C8: normalizing a normalized header gives the same text.                *)
(***************************************************************************)
C8_Idempotente == pc = "norm2" => dos_veces = una_vez

C8_Witness ==
  /\ pc = "norm2"
  /\ col_name = <<193, ChSpace, ChDegree>>
  /\ una_vez = <<97, ChUnderscore>> \o TxtNro
  /\ dos_veces = una_vez

(***************************************************************************)
(* C9 as stated: the result has the highest count; among the candidates    *)
(* with the highest count it is the first of comma, semicolon, tab, pipe;  *)
(* it is comma when no candidate occurs.                                   *)
(***************************************************************************)
ConteoMaximo(q) ==
  CHOOSE n \in 0..Len(q) :
    /\ \E k \in 1..4 : Count(q, delimitadores[k]) = n
    /\ \A k \in 1..4 : Count(q, delimitadores[k]) <= n

PrimeroConMaximo(pref, q) ==
  pref[CHOOSE k \in 1..Len(pref) :
         /\ Count(q, pref[k]) = ConteoMaximo(q)
         /\ \A m \in 1..(k - 1) : Count(q, pref[m]) # ConteoMaximo(q)]

C9_PreferenciaComa ==
  pc = "detectado"
  => delimitador = PrimeroConMaximo(<<ChComma, ChSemicolon, ChTab, ChPipe>>, sample)

(***************************************************************************)
(* C9 amended: the result has the highest count; among the candidates with *)
(* the highest count it is the first of semicolon, comma, tab, pipe; it is *)
(* comma when no candidate occurs.                                         *)
(***************************************************************************)
C9_PreferenciaPuntoYComa ==
  pc = "detectado"
  => /\ Count(sample, delimitador) = ConteoMaximo(sample)
     /\ delimitador =
          IF ConteoMaximo(sample) = 0 THEN ChComma
          ELSE PrimeroConMaximo(<<ChSemicolon, ChComma, ChTab, ChPipe>>, sample)

C9_Witness ==
  /\ pc = "detectado"
  /\ Count(sample, ChComma) = 2
  /\ Count(sample, ChSemicolon) = 2
  /\ delimitador = ChSemicolon

(***************************************************************************)
(* C10 as stated: every cell of the result has the content of the cell of  *)
(* the accepted table it comes from: missing exactly when that one is      *)
(* missing, the same number when that one is a number, and the same text   *)
(* without its illegal control characters when that one is a text.         *)
(* Stated for the lists without entirely missing rows, where C5 plays no   *)
(* part.                                                                   *)
(***************************************************************************)
MismoContenido(antes, despues) ==
  IF Faltante(antes) THEN Faltante(despues)
  ELSE IF antes.tipo = "str"
  THEN /\ despues.tipo = "str"
       /\ despues.txt = SelectSeq(antes.txt, LAMBDA c : ~ILLEGAL_CHARACTERS_RE(c))
  ELSE despues.tipo \in {"int", "float"} /\ despues.num = antes.num

C10_ContenidoIntacto ==
  (SinFilasEnBlanco /\ pc = "done" /\ df_consolidado # <<>>)
  => LET antes == Concat([k \in 1..Len(dataframes) |-> dataframes[k].rows])
         despues == df_consolidado[1].rows
     IN /\ Len(despues) = Len(antes)
        /\ \A r \in 1..Len(antes) : \A j \in 1..Len(antes[r]) :
             MismoContenido(antes[r][j], despues[r][j])

====
